---- MODULE Spec2Model ----
(***************************************************************************)
(* Model of the feature-flag service (app.js): the in-memory flag store,   *)
(* the route handlers over it and the replies they produce.                *)
(*                                                                         *)
(* Objects live in a heap and the store maps each flag key to a reference, *)
(* as the JavaScript Map does; a reply a handler has returned holds the    *)
(* references it was given until the framework serializes it.              *)
(* JavaScript strings that the code inspects character by character        *)
(* (userId, string flag values) are sequences of UTF-16 code units.        *)
(***************************************************************************)
EXTENDS Integers, Sequences, FiniteSets, TLC

VARIABLES
    flags,        \* the Map `flags`: flag key -> reference of its record
    heap,         \* reference -> record object {value, lastUpdated, source}
    now,          \* the wall clock, in milliseconds
    reply,        \* the latest reply of a non-refresh handler (request, phase, payload)
    lastRefresh   \* the latest POST /flags/refresh: its response and the store before it

vars == <<flags, heap, now, reply, lastRefresh>>

-----------------------------------------------------------------------------
(* Bounds *)

MaxClock == 1          \* the clock runs from 0 to MaxClock
MaxSeedSkew == 1       \* the four seed records are stamped within 0..MaxSeedSkew

-----------------------------------------------------------------------------
(* Values *)

Has(obj, field) == field \in DOMAIN obj

Range(f) == {f[x] : x \in DOMAIN f}

Project(obj, props) == [p \in props \cap DOMAIN obj |-> obj[p]]

\* The tagged union of flag values: boolean | number | string | object.
BoolVal(b) == [kind |-> "boolean", b |-> b]
NumVal(n) == [kind |-> "number", n |-> n]
StrVal(s) == [kind |-> "string", s |-> s]
ObjVal == [kind |-> "object"]

\* 'v2'
Str_v2 == <<118, 50>>

\* Date.prototype.toISOString: fixed-width, zero-padded fields, most
\* significant first (here the three decimal digits of the millisecond count).
toISOString(ms) == <<(ms \div 100) % 10, (ms \div 10) % 10, ms % 10>>

-----------------------------------------------------------------------------
(* The store *)

\* The keys in insertion order (a Map iterates in insertion order).
SeedKeys == <<"feature-new-ui", "feature-analytics", "max-items-per-page", "api-version">>

\* Mutation: the second seed is stored enabled.
SeedValueSecondOn(i) ==
    CASE i = 1 -> BoolVal(TRUE)
      [] i = 2 -> BoolVal(TRUE)
      [] i = 3 -> NumVal(50)
      [] i = 4 -> StrVal(Str_v2)

SeedValue(i) ==
    CASE i = 1 -> BoolVal(TRUE)
      [] i = 2 -> BoolVal(FALSE)
      [] i = 3 -> NumVal(50)
      [] i = 4 -> StrVal(Str_v2)

SeedSource == "bootstrap"

KeyIndex(k) == CHOOSE i \in DOMAIN SeedKeys : SeedKeys[i] = k

\* A key no flag is stored under.
UnknownKey == "non-existent-flag"

FlagKeys == Range(SeedKeys) \cup {UnknownKey}

RecordProps == {"value", "lastUpdated", "source"}

\* References. Objects are allocated in generations, each with one slot per
\* key: the stored records, the records a pending reply still holds, and
\* the records a refresh allocates before the replaced ones are dropped.
Generations == 0 .. 2

Slot(k, g) == KeyIndex(k) + g * Len(SeedKeys)

\* flags.entries(): the stored keys in insertion order.
Entries(f) == SelectSeq(SeedKeys, LAMBDA k : k \in DOMAIN f)

\* The first generation no live object is in.
GenerationOf(o) == (o - 1) \div Len(SeedKeys)

FreeGeneration(h) ==
    LET live == {GenerationOf(o) : o \in DOMAIN h}
    IN  CHOOSE g \in Generations \ live : \A g2 \in Generations \ live : g <= g2

\* The records of the store, by key.
Snapshot(h, f) == [k \in DOMAIN f |-> h[f[k]]]

\* Objects no root refers to are gone.
Collect(h, roots) == [o \in roots \cap DOMAIN h |-> h[o]]

\* The references a reply holds until it is serialized.
HeldRefs(rp) == IF rp.phase = "pending" THEN Range(rp.refs) ELSE {}

Roots(f, rp) == Range(f) \cup HeldRefs(rp)

-----------------------------------------------------------------------------
(* Requests *)

ApplicationIds == {"my-app-123"}

\* request.query of the routes that take only applicationId
Queries == {<<>>} \cup {[applicationId |-> a] : a \in ApplicationIds}

Ctx_wellFormed == "{\"userId\":\"123\",\"country\":\"US\"}"
Ctx_malformed == "{userId"
Ctx_empty == ""

ContextStrings == {Ctx_wellFormed, Ctx_malformed, Ctx_empty}

\* JSON.parse on the context strings above: it throws on the malformed ones.
JsonThrows(s) == s \in {Ctx_malformed, Ctx_empty}

JsonParse(s) ==
    CASE s = Ctx_wellFormed -> [userId |-> "123", country |-> "US"]

\* parseContext(request.query.context)
parseContext(query) ==
    IF ~Has(query, "context") \/ query.context = "" THEN <<>>
    ELSE IF JsonThrows(query.context) THEN <<>>
    ELSE JsonParse(query.context)

\* request.query of GET /flags/:flagKey
FlagQueries ==
    Queries \cup {[context |-> c] : c \in ContextStrings}
            \cup {[applicationId |-> a, context |-> c] :
                     a \in ApplicationIds, c \in ContextStrings}

\* userId strings: '', 'a', 'b', 'ab', 'user-123'
Str_empty == <<>>
Str_a == <<97>>
Str_b == <<98>>
Str_ab == <<97, 98>>
Str_user123 == <<117, 115, 101, 114, 45, 49, 50, 51>>

UserIds == {Str_empty, Str_a, Str_b, Str_ab, Str_user123}

AttributeValues ==
    [country |-> {"US", "CA"}, plan |-> {"premium", "free"}, beta |-> {"yes"}]

\* userAttributes objects: any subset of the fields country, plan and beta
UserAttributes ==
    UNION {{ua \in [d -> {"US", "CA", "premium", "free", "yes"}] :
               \A a \in d : ua[a] \in AttributeValues[a]} :
           d \in SUBSET {"country", "plan", "beta"}}

\* request.body of the assignment routes
Bodies ==
    {<<>>} \cup {[userId |-> u] : u \in UserIds}
           \cup {[userAttributes |-> ua] : ua \in UserAttributes}
           \cup {[userId |-> u, userAttributes |-> ua] :
                    u \in {Str_empty, Str_a, Str_b},
                    ua \in {x \in UserAttributes : ~Has(x, "beta")}}

-----------------------------------------------------------------------------
(* Replies *)

NoRefs == <<>>

\* The reply slot is free.
NoReply ==
    [op |-> "none", req |-> <<>>, phase |-> "free", status |-> 0,
     refs |-> NoRefs, seen |-> <<>>, body |-> <<>>]

NoRefresh == [status |-> 0, body |-> <<>>, before |-> <<>>]

\* Mutation: the framework's own 404 body.
FrameworkNotFound == [error |-> "Not Found"]

FlagNotFound == [error |-> "Flag not found"]

IdentityRequired == [error |-> "Either userId or userAttributes must be provided"]

\* What a handler hands to the framework: a status and either a plain
\* payload or references to stored records (seen: the records they refer
\* to as the handler runs).
Returned(op, req, status, refs, body, h) ==
    [op |-> op, req |-> req, phase |-> "pending", status |-> status,
     refs |-> refs, seen |-> [k \in DOMAIN refs |-> h[refs[k]]], body |-> body]

-----------------------------------------------------------------------------
(* Initial state: module load *)

Init ==
    \E t \in [DOMAIN SeedKeys -> 0 .. MaxSeedSkew] :
        /\ \A i, j \in DOMAIN SeedKeys : i <= j => t[i] <= t[j]
        /\ heap = [o \in DOMAIN SeedKeys |->
                      [value |-> SeedValue(o),
                       lastUpdated |-> toISOString(t[o]),
                       source |-> SeedSource]]
        /\ flags = [k \in Range(SeedKeys) |-> KeyIndex(k)]
        /\ now = t[Len(SeedKeys)]
        /\ reply = NoReply
        /\ lastRefresh = NoRefresh

-----------------------------------------------------------------------------
(* The clock *)

Tick ==
    /\ now < MaxClock
    /\ now' = now + 1
    /\ UNCHANGED <<flags, heap, reply, lastRefresh>>

\* The reply slot is free: the previous response has left.
Idle == reply = NoReply

\* A handler's return value takes the reply slot; the store is left alone.
Handle(rp) ==
    /\ reply' = rp
    /\ heap' = Collect(heap, Roots(flags, rp))
    /\ UNCHANGED <<flags, now, lastRefresh>>

-----------------------------------------------------------------------------
(* GET /flags *)

\* Mutation: the listing is scoped to the application, which owns no flag.
ListFlagsHandlerScoped(f, h, query) ==
    IF Has(query, "applicationId")
    THEN Returned("GET /flags", [query |-> query], 200, NoRefs, <<>>, h)
    ELSE Returned("GET /flags", [query |-> query], 200,
                  [k \in DOMAIN f |-> f[k]], <<>>, h)

ListFlagsHandler(f, h, query) ==
    Returned("GET /flags", [query |-> query], 200,
             [k \in DOMAIN f |-> f[k]], <<>>, h)

GetFlags ==
    /\ Idle
    /\ \E query \in Queries : Handle(ListFlagsHandler(flags, heap, query))

-----------------------------------------------------------------------------
(* GET /flags/:flagKey *)

\* Mutation: a missing key falls back to the first flag.
GetFlagHandlerFallback(f, h, flagKey, query) ==
    Returned("GET /flags/:flagKey",
             [flagKey |-> flagKey, query |-> query, context |-> parseContext(query)],
             200, [k \in {flagKey} |-> f[SeedKeys[1]]], <<>>, h)

\* Mutation: a context that does not parse is rejected.
GetFlagHandlerStrict(f, h, flagKey, query) ==
    LET req == [flagKey |-> flagKey, query |-> query,
                context |-> parseContext(query)]
    IN  IF Has(query, "context") /\ query.context # ""
           /\ JsonThrows(query.context)
        THEN Returned("GET /flags/:flagKey", req, 400, NoRefs,
                      [error |-> "Invalid context"], h)
        ELSE IF ~Has(f, flagKey)
        THEN Returned("GET /flags/:flagKey", req, 404, NoRefs, FlagNotFound, h)
        ELSE Returned("GET /flags/:flagKey", req, 200,
                      [k \in {flagKey} |-> f[k]], <<>>, h)

GetFlagHandler(f, h, flagKey, query) ==
    LET req == [flagKey |-> flagKey, query |-> query,
                context |-> parseContext(query)]
    IN  IF ~Has(f, flagKey)
        THEN Returned("GET /flags/:flagKey", req, 404, NoRefs, FlagNotFound, h)
        ELSE Returned("GET /flags/:flagKey", req, 200,
                      [k \in {flagKey} |-> f[k]], <<>>, h)

GetFlag ==
    /\ Idle
    /\ \E flagKey \in FlagKeys, query \in FlagQueries :
           Handle(GetFlagHandler(flags, heap, flagKey, query))

-----------------------------------------------------------------------------
(* POST /flags/refresh *)

\* The loop over flags.entries(): each key is set to a new object that
\* copies the stored one and overrides lastUpdated.
\* Mutation: the spread comes last, so the stored lastUpdated wins.
RECURSIVE RefreshLoopSpreadLast(_, _, _, _, _)
RefreshLoopSpreadLast(h, f, entries, timestamp, g) ==
    IF entries = <<>> THEN [heap |-> h, flags |-> f]
    ELSE LET key == Head(entries)
             flag == h[f[key]]
             ref == Slot(key, g)
             copy == [p \in {"lastUpdated"} \cup DOMAIN flag |->
                         IF p \in DOMAIN flag THEN flag[p] ELSE timestamp]
         IN  RefreshLoopSpreadLast([o \in DOMAIN h \cup {ref} |->
                                       IF o = ref THEN copy ELSE h[o]],
                                   [f EXCEPT ![key] = ref],
                                   Tail(entries), timestamp, g)

\* Mutation: lastUpdated is assigned on the stored object itself.
RECURSIVE RefreshLoopInPlace(_, _, _, _, _)
RefreshLoopInPlace(h, f, entries, timestamp, g) ==
    IF entries = <<>> THEN [heap |-> h, flags |-> f]
    ELSE LET key == Head(entries)
         IN  RefreshLoopInPlace([h EXCEPT ![f[key]].lastUpdated = timestamp], f,
                                Tail(entries), timestamp, g)

\* Mutation: a refreshed record is marked as coming from the refresh.
RECURSIVE RefreshLoopResourced(_, _, _, _, _)
RefreshLoopResourced(h, f, entries, timestamp, g) ==
    IF entries = <<>> THEN [heap |-> h, flags |-> f]
    ELSE LET key == Head(entries)
             flag == h[f[key]]
             ref == Slot(key, g)
             copy == [p \in DOMAIN flag \cup {"lastUpdated", "source"} |->
                         IF p = "lastUpdated" THEN timestamp
                         ELSE IF p = "source" THEN "refresh" ELSE flag[p]]
         IN  RefreshLoopResourced([o \in DOMAIN h \cup {ref} |->
                                      IF o = ref THEN copy ELSE h[o]],
                                  [f EXCEPT ![key] = ref],
                                  Tail(entries), timestamp, g)

\* Mutation: the loop gives way after its first replacement.
RefreshLoopFirstKey(h, f, entries, timestamp, g) ==
    IF entries = <<>> THEN [heap |-> h, flags |-> f]
    ELSE LET key == Head(entries)
             flag == h[f[key]]
             ref == Slot(key, g)
             copy == [p \in DOMAIN flag \cup {"lastUpdated"} |->
                         IF p = "lastUpdated" THEN timestamp ELSE flag[p]]
         IN  [heap |-> [o \in DOMAIN h \cup {ref} |->
                           IF o = ref THEN copy ELSE h[o]],
              flags |-> [f EXCEPT ![key] = ref]]

RECURSIVE RefreshLoop(_, _, _, _, _)
RefreshLoop(h, f, entries, timestamp, g) ==
    IF entries = <<>> THEN [heap |-> h, flags |-> f]
    ELSE LET key == Head(entries)
             flag == h[f[key]]
             ref == Slot(key, g)
             copy == [p \in DOMAIN flag \cup {"lastUpdated"} |->
                         IF p = "lastUpdated" THEN timestamp ELSE flag[p]]
         IN  RefreshLoop([o \in DOMAIN h \cup {ref} |->
                             IF o = ref THEN copy ELSE h[o]],
                         [f EXCEPT ![key] = ref],
                         Tail(entries), timestamp, g)

RefreshStore(h, f, timestamp) ==
    RefreshLoop(h, f, Entries(f), timestamp, FreeGeneration(h))

\* Mutation: the timestamp is taken once, when the module loads.
RefreshHandlerStaleStamp(h, f, clock, query) ==
    LET timestamp == toISOString(0)
        store == RefreshStore(h, f, timestamp)
    IN  [heap |-> store.heap, flags |-> store.flags, status |-> 200,
         body |-> [refreshed |-> TRUE, timestamp |-> timestamp]]

RefreshHandler(h, f, clock, query) ==
    LET timestamp == toISOString(clock)
        store == RefreshStore(h, f, timestamp)
    IN  [heap |-> store.heap, flags |-> store.flags, status |-> 200,
         body |-> [refreshed |-> TRUE, timestamp |-> timestamp]]

Refresh ==
    \E query \in Queries :
        LET done == RefreshHandler(heap, flags, now, query)
        IN  /\ flags' = done.flags
            /\ heap' = Collect(done.heap, Roots(done.flags, reply))
            /\ lastRefresh' = [status |-> done.status, body |-> done.body,
                               before |-> Snapshot(heap, flags)]
            /\ UNCHANGED <<now, reply>>

-----------------------------------------------------------------------------
(* POST /assignment and POST /assignment/:flagKey *)

\* !userId: userId is undefined or the empty string
UserIdGiven(body) == Has(body, "userId") /\ body.userId # <<>>

\* !userAttributes: userAttributes is undefined (every object is truthy)
AttributesGiven(body) == Has(body, "userAttributes")

\* userId.split('').reduce((acc, char) => acc + char.charCodeAt(0), 0)
\* Mutation: every step adds the code of the first character.
CharCodeSumOfFirst(s) == IF s = <<>> THEN 0 ELSE Head(s) * Len(s)

RECURSIVE CharCodeSum(_)
CharCodeSum(s) == IF s = <<>> THEN 0 ELSE Head(s) + CharCodeSum(Tail(s))

HashAssigned(userId) == CharCodeSum(userId) % 2 = 0

\* userAttributes.country === 'US' || userAttributes.plan === 'premium'
\* (a missing field reads as undefined, which equals neither)
\* Mutation: both attributes are required.
AttributesAssignedBoth(ua) ==
    /\ (Has(ua, "country") /\ ua.country = "US")
    /\ (Has(ua, "plan") /\ ua.plan = "premium")

AttributesAssigned(ua) ==
    \/ (Has(ua, "country") /\ ua.country = "US")
    \/ (Has(ua, "plan") /\ ua.plan = "premium")

\* Mutation: the attribute branch is tested first.
AssignedAttributesFirst(body) ==
    IF AttributesGiven(body) THEN AttributesAssigned(body.userAttributes)
    ELSE IF UserIdGiven(body) THEN HashAssigned(body.userId)
    ELSE FALSE

Assigned(body) ==
    IF UserIdGiven(body) THEN HashAssigned(body.userId)
    ELSE IF AttributesGiven(body) THEN AttributesAssigned(body.userAttributes)
    ELSE FALSE

Variation(clock) ==
    [flagKey |-> "feature-new-ui", value |-> TRUE, variation |-> "on",
     assigned |-> TRUE, reason |-> "DEFAULT",
     lastUpdated |-> toISOString(clock), source |-> "bootstrap"]

\* Mutation: the descriptor's assigned is evaluated for the identity.
AssignmentHandlerEvaluated(h, clock, query, body) ==
    IF ~UserIdGiven(body) /\ ~AttributesGiven(body)
    THEN Returned("POST /assignment", [query |-> query, body |-> body], 400,
                  NoRefs, IdentityRequired, h)
    ELSE Returned("POST /assignment", [query |-> query, body |-> body], 200,
                  NoRefs, [Variation(clock) EXCEPT !.assigned = Assigned(body)], h)

AssignmentHandler(h, clock, query, body) ==
    LET req == [query |-> query, body |-> body]
    IN  IF ~UserIdGiven(body) /\ ~AttributesGiven(body)
        THEN Returned("POST /assignment", req, 400, NoRefs, IdentityRequired, h)
        ELSE Returned("POST /assignment", req, 200, NoRefs, Variation(clock), h)

Assignment ==
    /\ Idle
    /\ \E query \in Queries, body \in Bodies :
           Handle(AssignmentHandler(heap, now, query, body))

\* Mutation: the flag is resolved before the body is validated.
FlagAssignmentHandlerFlagFirst(f, h, flagKey, query, body) ==
    LET req == [flagKey |-> flagKey, query |-> query, body |-> body]
    IN  IF ~Has(f, flagKey)
        THEN Returned("POST /assignment/:flagKey", req, 404, NoRefs,
                      FlagNotFound, h)
        ELSE IF ~UserIdGiven(body) /\ ~AttributesGiven(body)
        THEN Returned("POST /assignment/:flagKey", req, 400, NoRefs,
                      IdentityRequired, h)
        ELSE Returned("POST /assignment/:flagKey", req, 200, NoRefs,
                      [assigned |-> Assigned(body)], h)

FlagAssignmentHandler(f, h, flagKey, query, body) ==
    LET req == [flagKey |-> flagKey, query |-> query, body |-> body]
    IN  IF ~UserIdGiven(body) /\ ~AttributesGiven(body)
        THEN Returned("POST /assignment/:flagKey", req, 400, NoRefs,
                      IdentityRequired, h)
        ELSE IF ~Has(f, flagKey)
        THEN Returned("POST /assignment/:flagKey", req, 404, NoRefs,
                      FlagNotFound, h)
        ELSE Returned("POST /assignment/:flagKey", req, 200, NoRefs,
                      [assigned |-> Assigned(body)], h)

FlagAssignment ==
    /\ Idle
    /\ \E flagKey \in FlagKeys, query \in Queries, body \in Bodies :
           Handle(FlagAssignmentHandler(flags, heap, flagKey, query, body))

-----------------------------------------------------------------------------
(* GET /flags/:flagKey/enabled and the value coercion *)

\* String.prototype.toLowerCase on ASCII code units
ToLowerCase(s) == [i \in DOMAIN s |-> IF s[i] >= 65 /\ s[i] <= 90 THEN s[i] + 32 ELSE s[i]]

\* 'true', '1'
Str_true == <<116, 114, 117, 101>>
Str_1 == <<49>>

coerce(value) ==
    CASE value.kind = "boolean" -> value.b
      [] value.kind = "string" -> ToLowerCase(value.s) = Str_true \/ value.s = Str_1
      [] value.kind = "number" -> value.n # 0
      [] OTHER -> FALSE

EnabledHandler(f, h, flagKey, query) ==
    LET req == [flagKey |-> flagKey, query |-> query]
    IN  IF ~Has(f, flagKey)
        THEN Returned("GET /flags/:flagKey/enabled", req, 404, NoRefs,
                      FlagNotFound, h)
        ELSE LET flag == h[f[flagKey]]
             IN  Returned("GET /flags/:flagKey/enabled", req, 200, NoRefs,
                          [enabled |-> coerce(flag.value),
                           lastUpdated |-> flag.lastUpdated,
                           source |-> flag.source], h)

GetEnabled ==
    /\ Idle
    /\ \E flagKey \in FlagKeys, query \in FlagQueries :
           Handle(EnabledHandler(flags, heap, flagKey, query))

\* 'TRUE', 'True', '0', 'yes', '11', 'true '
Str_TRUE == <<84, 82, 85, 69>>
Str_True == <<84, 114, 117, 101>>
Str_0 == <<48>>
Str_yes == <<121, 101, 115>>
Str_11 == <<49, 49>>
Str_trueSpace == <<116, 114, 117, 101, 32>>

\* Values a flag can hold, of each of the four kinds.
FlagValues ==
    {BoolVal(b) : b \in BOOLEAN}
        \cup {NumVal(n) : n \in {-5, -1, 0, 1, 50}}
        \cup {StrVal(s) : s \in {Str_true, Str_TRUE, Str_True, Str_1, Str_0,
                                 Str_empty, Str_yes, Str_v2, Str_11, Str_trueSpace}}
        \cup {ObjVal}

\* The coercion applied to a value of any kind.
Coerce ==
    /\ Idle
    /\ \E value \in FlagValues :
           Handle([op |-> "coerce", req |-> [value |-> value], phase |-> "sent",
                   status |-> 0, refs |-> NoRefs, seen |-> <<>>,
                   body |-> [enabled |-> coerce(value)]])

-----------------------------------------------------------------------------
(* Serialization of a returned payload by the route's response schema *)

\* The properties the response schema of a route declares for a status
\* (additionalProperties: true keeps every property).
SchemaProps(op, status, payload) ==
    CASE status \in {400, 404} -> {"error"}
      [] op = "POST /assignment/:flagKey" -> {"assigned"}
      [] op = "GET /flags/:flagKey" -> RecordProps
      [] OTHER -> DOMAIN payload

Serialize(rp, h) ==
    CASE rp.op = "GET /flags" ->
             [k \in DOMAIN rp.refs |-> Project(h[rp.refs[k]], RecordProps)]
      [] rp.op = "GET /flags/:flagKey" /\ rp.status = 200 ->
             Project(h[rp.refs[rp.req.flagKey]],
                     SchemaProps(rp.op, rp.status, h[rp.refs[rp.req.flagKey]]))
      [] OTHER -> Project(rp.body, SchemaProps(rp.op, rp.status, rp.body))

\* The framework serializes the returned payload.
Send ==
    /\ reply.phase = "pending"
    /\ reply' = [reply EXCEPT !.phase = "sent", !.refs = NoRefs,
                              !.body = Serialize(reply, heap)]
    /\ heap' = Collect(heap, Roots(flags, reply'))
    /\ UNCHANGED <<flags, now, lastRefresh>>

\* The response has left; the slot is free again.
Deliver ==
    /\ reply.phase = "sent"
    /\ reply' = NoReply
    /\ UNCHANGED <<flags, heap, now, lastRefresh>>

-----------------------------------------------------------------------------

Next ==
    \/ Tick
    \/ GetFlags
    \/ GetFlag
    \/ GetEnabled
    \/ Coerce
    \/ Refresh
    \/ Assignment
    \/ FlagAssignment
    \/ Send
    \/ Deliver

Spec == Init /\ [][Next]_vars

-----------------------------------------------------------------------------
(* Properties *)

Stored(k) == heap[flags[k]]

IsReply(op) == reply.op = op /\ reply.phase \in {"pending", "sent"}

\* C1: after a refresh that returned timestamp t, every key that was in the
\* store before the call is still there with lastUpdated = t and with the
\* value and source it had before the call, whatever refreshes and reads
\* came earlier.
RefreshStampsEveryKey ==
    lastRefresh.status = 200 =>
        \A k \in DOMAIN lastRefresh.before :
            /\ k \in DOMAIN flags
            /\ Stored(k).lastUpdated = lastRefresh.body.timestamp
            /\ Stored(k).value = lastRefresh.before[k].value
            /\ Stored(k).source = lastRefresh.before[k].source

\* A refresh has run on a store whose records carried other timestamps,
\* two of them different, while a reader's reply was still pending.
RefreshStampsEveryKeyWitness ==
    /\ lastRefresh.status = 200
    /\ lastRefresh.body = [refreshed |-> TRUE, timestamp |-> toISOString(1)]
    /\ \E j, k \in DOMAIN lastRefresh.before :
           /\ lastRefresh.before[j].lastUpdated # lastRefresh.before[k].lastUpdated
           /\ lastRefresh.before[j].lastUpdated # lastRefresh.body.timestamp
    /\ IsReply("GET /flags")
    /\ \A k \in DOMAIN flags : Stored(k).lastUpdated = toISOString(1)

\* The strings that equal 'true' when case is ignored.
TrueInAnyCase ==
    {s \in [1 .. 4 -> {116, 84, 114, 82, 117, 85, 101, 69}] :
        /\ s[1] \in {116, 84}
        /\ s[2] \in {114, 82}
        /\ s[3] \in {117, 85}
        /\ s[4] \in {101, 69}}

\* The coercion rule, case by case.
EnabledRule(value) ==
    \/ value \in {BoolVal(TRUE)}
    \/ value.kind = "number" /\ (value.n < 0 \/ value.n > 0)
    \/ value.kind = "string" /\ (value.s \in TrueInAnyCase \/ value.s = <<49>>)

IdentitySupplied(body) ==
    \/ "userId" \in DOMAIN body /\ Len(body.userId) > 0
    \/ "userAttributes" \in DOMAIN body

\* C3: POST /assignment/{flagKey} decides in this order: no identity
\* supplied gives 400 "Either userId or userAttributes must be provided",
\* whether or not the flag exists; otherwise an unknown flag gives 404
\* "Flag not found"; otherwise 200 carrying only the boolean assigned.
FlagAssignmentOutcomeOrder ==
    IsReply("POST /assignment/:flagKey") =>
        IF ~IdentitySupplied(reply.req.body)
        THEN /\ reply.status = 400
             /\ reply.body = [error |-> "Either userId or userAttributes must be provided"]
        ELSE IF reply.req.flagKey \notin DOMAIN flags
        THEN /\ reply.status = 404
             /\ reply.body = [error |-> "Flag not found"]
        ELSE /\ reply.status = 200
             /\ DOMAIN reply.body = {"assigned"}
             /\ reply.body.assigned \in BOOLEAN

\* A request with neither identity nor a known flag has been answered 400.
FlagAssignmentOutcomeOrderWitness ==
    /\ IsReply("POST /assignment/:flagKey")
    /\ reply.phase = "sent"
    /\ reply.req.body = <<>>
    /\ reply.req.flagKey = UnknownKey
    /\ reply.status = 400

\* The sum of the code units of s is even: an even number of them is odd.
EvenCodeSum(s) == Cardinality({i \in DOMAIN s : s[i] % 2 = 1}) % 2 = 0

\* What any call for an existing flag answers now for a body.
AssignedNow(body) ==
    {FlagAssignmentHandler(flags, heap, k, q, body).body.assigned :
        k \in DOMAIN flags, q \in Queries}

\* C4: for an existing flag and a non-empty userId, assigned is true iff
\* the sum of the character codes of userId is even, and a call with the
\* same userId gives the same answer for every existing flag in every store
\* state.
HashAssignmentByUserId ==
    (/\ IsReply("POST /assignment/:flagKey")
     /\ reply.req.flagKey \in DOMAIN flags
     /\ "userId" \in DOMAIN reply.req.body
     /\ reply.req.body.userId # <<>>) =>
        /\ reply.status = 200
        /\ reply.body.assigned = EvenCodeSum(reply.req.body.userId)
        /\ AssignedNow([userId |-> reply.req.body.userId]) = {reply.body.assigned}

\* 'user-123' has been answered assigned, and the store was refreshed while
\* the answer was in flight.
HashAssignmentByUserIdWitness ==
    /\ IsReply("POST /assignment/:flagKey")
    /\ reply.req.flagKey = "api-version"
    /\ reply.req.body = [userId |-> Str_user123]
    /\ reply.body = [assigned |-> TRUE]
    /\ lastRefresh.status = 200

\* C5: for an existing flag with userAttributes and no userId, assigned is
\* true iff country is "US" or plan is "premium"; a missing field does not
\* match and is no error, and the other attributes are ignored.
AttributeAssignment ==
    (/\ IsReply("POST /assignment/:flagKey")
     /\ reply.req.flagKey \in DOMAIN flags
     /\ DOMAIN reply.req.body = {"userAttributes"}) =>
        LET ua == reply.req.body.userAttributes
        IN  /\ reply.status = 200
            /\ reply.body.assigned =
                   (\/ \E a \in DOMAIN ua : a = "country" /\ ua[a] = "US"
                    \/ \E a \in DOMAIN ua : a = "plan" /\ ua[a] = "premium")
            /\ AssignedNow([userAttributes |-> Project(ua, {"country", "plan"})])
                   = {reply.body.assigned}

\* A premium user without a country, with another attribute, is assigned.
AttributeAssignmentWitness ==
    /\ IsReply("POST /assignment/:flagKey")
    /\ reply.phase = "sent"
    /\ reply.req.body = [userAttributes |-> [plan |-> "premium", beta |-> "yes"]]
    /\ reply.body = [assigned |-> TRUE]

\* C6: with both userId and userAttributes, the identity hash decides and
\* the attributes have no influence; the attribute rule is used only when
\* userId is absent or empty.
UserIdTakesPrecedence ==
    (/\ IsReply("POST /assignment/:flagKey")
     /\ reply.req.flagKey \in DOMAIN flags
     /\ DOMAIN reply.req.body = {"userId", "userAttributes"}) =>
        LET body == reply.req.body
        IN  /\ reply.status = 200
            /\ body.userId # <<>> =>
                   /\ reply.body.assigned = EvenCodeSum(body.userId)
                   /\ AssignedNow([userId |-> body.userId]) = {reply.body.assigned}
            /\ body.userId = <<>> =>
                   AssignedNow([userAttributes |-> body.userAttributes])
                       = {reply.body.assigned}

\* userId 'a' (odd sum) with a US user: the hash says no, the attributes
\* would say yes.
UserIdTakesPrecedenceWitness ==
    /\ IsReply("POST /assignment/:flagKey")
    /\ reply.phase = "sent"
    /\ reply.req.body = [userId |-> Str_a, userAttributes |-> [country |-> "US"]]
    /\ reply.body = [assigned |-> FALSE]

\* C7: POST /assignment answers 400 with the identity error and no
\* descriptor when neither userId nor userAttributes is supplied; otherwise
\* 200 with the descriptor flagKey "feature-new-ui", value true, variation
\* "on", assigned true, reason "DEFAULT", source "bootstrap", the same for
\* every identity.
DefaultVariation ==
    IsReply("POST /assignment") =>
        IF ~IdentitySupplied(reply.req.body)
        THEN /\ reply.status = 400
             /\ reply.body = [error |-> "Either userId or userAttributes must be provided"]
        ELSE /\ reply.status = 200
             /\ Project(reply.body, DOMAIN reply.body \ {"lastUpdated"}) =
                    [flagKey |-> "feature-new-ui", value |-> TRUE, variation |-> "on",
                     assigned |-> TRUE, reason |-> "DEFAULT", source |-> "bootstrap"]

\* The descriptor has been sent for userId 'a', whose hash rule says no.
DefaultVariationWitness ==
    /\ IsReply("POST /assignment")
    /\ reply.phase = "sent"
    /\ reply.req.body = [userId |-> Str_a]
    /\ reply.status = 200
    /\ reply.body.assigned = TRUE

\* C8: GET /flags/{flagKey} is a pure lookup: for a stored key it answers
\* 200 with the record stored under the key as the handler runs (value,
\* lastUpdated, source), for any other key 404 "Flag not found", and it
\* leaves the store as it was in both cases.
FlagLookupIsPure ==
    /\ [](IsReply("GET /flags/:flagKey") =>
            IF reply.req.flagKey \in DOMAIN flags
            THEN /\ reply.status = 200
                 /\ reply.phase = "sent" =>
                        /\ reply.body = reply.seen[reply.req.flagKey]
                        /\ DOMAIN reply.body = {"value", "lastUpdated", "source"}
            ELSE /\ reply.status = 404
                 /\ reply.body = [error |-> "Flag not found"])
    /\ [][(reply.op = "none" /\ reply'.op = "GET /flags/:flagKey") =>
            /\ flags' = flags
            /\ Snapshot(heap', flags') = Snapshot(heap, flags)
            /\ reply'.status = 200 =>
                   reply'.seen = [k \in {reply'.req.flagKey} |-> Stored(k)]]_vars

\* The number flag has been looked up after a refresh and its record sent.
FlagLookupIsPureWitness ==
    /\ IsReply("GET /flags/:flagKey")
    /\ reply.phase = "sent"
    /\ reply.req.flagKey = "max-items-per-page"
    /\ reply.body = [value |-> NumVal(50), lastUpdated |-> toISOString(1),
                     source |-> "bootstrap"]
    /\ lastRefresh.status = 200

Observed(k) ==
    IF reply.phase = "pending" THEN heap[reply.refs[k]]
    ELSE IF reply.op = "GET /flags" THEN reply.body[k]
    ELSE reply.body

\* C10: however a refresh interleaves with a reader (GET /flags, GET
\* /flags/{flagKey}), every record the reader sees is a complete record of
\* its key: the record stored when the handler read it, which is the
\* stored record still or, once a refresh has replaced it, the record from
\* before that refresh, differing from the stored one in lastUpdated only.
ReadersSeeWholeRecords ==
    ((IsReply("GET /flags") \/ IsReply("GET /flags/:flagKey")) /\ reply.status = 200) =>
        \A k \in DOMAIN reply.seen :
            /\ DOMAIN Observed(k) = {"value", "lastUpdated", "source"}
            /\ Observed(k) = reply.seen[k]
            /\ \/ Observed(k) = Stored(k)
               \/ /\ lastRefresh.status = 200
                  /\ Observed(k).value = Stored(k).value
                  /\ Observed(k).source = Stored(k).source
                  /\ Stored(k).lastUpdated = lastRefresh.body.timestamp

\* A listing is still pending while a refresh has replaced every record it
\* refers to, with another timestamp.
ReadersSeeWholeRecordsWitness ==
    /\ IsReply("GET /flags")
    /\ reply.phase = "pending"
    /\ lastRefresh.status = 200
    /\ \A k \in DOMAIN flags :
           /\ reply.refs[k] # flags[k]
           /\ heap[reply.refs[k]].lastUpdated # Stored(k).lastUpdated

\* The step is a POST /flags/refresh: it records the store it found.
RefreshStep ==
    /\ lastRefresh'.status = 200
    /\ lastRefresh'.before = Snapshot(heap, flags)
    /\ reply' = reply
    /\ now' = now

\* C11: the store always holds exactly the four seeded keys, each with its
\* seeded value and source "bootstrap"; no operation adds or deletes a key
\* and only POST /flags/refresh changes a record (the reads and the
\* assignment routes leave the store as it was, on their error paths too).
StoreKeepsSeededFlags ==
    /\ [](/\ DOMAIN flags = {"feature-new-ui", "feature-analytics",
                             "max-items-per-page", "api-version"}
          /\ Stored("feature-new-ui").value = BoolVal(TRUE)
          /\ Stored("feature-analytics").value = BoolVal(FALSE)
          /\ Stored("max-items-per-page").value = NumVal(50)
          /\ Stored("api-version").value = StrVal(<<118, 50>>)
          /\ \A k \in DOMAIN flags :
                 /\ DOMAIN Stored(k) = {"value", "lastUpdated", "source"}
                 /\ Stored(k).source = "bootstrap")
    /\ [][/\ DOMAIN flags' = DOMAIN flags
          /\ Snapshot(heap', flags') # Snapshot(heap, flags) => RefreshStep]_vars

\* After a refresh, an assignment for an unknown flag has been answered 404
\* and one for a known flag without identity 400.
StoreKeepsSeededFlagsWitness ==
    /\ lastRefresh.status = 200
    /\ lastRefresh.before # Snapshot(heap, flags)
    /\ IsReply("POST /assignment/:flagKey")
    /\ reply.phase = "sent"
    /\ reply.status \in {400, 404}

\* a <= b on strings: the first differing code unit decides, a prefix is
\* smaller.
RECURSIVE StringLeq(_, _)
StringLeq(a, b) ==
    IF a = <<>> THEN TRUE
    ELSE IF b = <<>> THEN FALSE
    ELSE IF Head(a) # Head(b) THEN Head(a) < Head(b)
    ELSE StringLeq(Tail(a), Tail(b))

WithoutApplicationId(query) ==
    [p \in DOMAIN query \ {"applicationId"} |-> query[p]]

\* What a reply answers with: the status and the body (the records it
\* refers to, or the literal body).
Response(rp) == Project(rp, {"status", "refs", "seen", "body"})

\* The reply of rp's route to rp's request with the applicationId taken out
\* of it, in the current state.
Unscoped(rp) ==
    LET query == WithoutApplicationId(rp.req.query)
    IN  CASE rp.op = "GET /flags" -> ListFlagsHandler(flags, heap, query)
          [] rp.op = "GET /flags/:flagKey" ->
                 GetFlagHandler(flags, heap, rp.req.flagKey, query)
          [] rp.op = "GET /flags/:flagKey/enabled" ->
                 EnabledHandler(flags, heap, rp.req.flagKey, query)
          [] rp.op = "POST /assignment" ->
                 AssignmentHandler(heap, now, query, rp.req.body)
          [] rp.op = "POST /assignment/:flagKey" ->
                 FlagAssignmentHandler(flags, heap, rp.req.flagKey, query,
                                       rp.req.body)

\* C13: applicationId is inert on every route: whatever the store and the
\* request, the response and the resulting store are those of the same
\* request without applicationId.
ApplicationIdIsInert ==
    [][/\ (reply = NoReply /\ reply'.phase = "pending") =>
              /\ Response(reply') = Response(Unscoped(reply'))
              /\ Snapshot(heap', flags') = Snapshot(heap, flags)
       /\ RefreshStep =>
              \A query \in Queries :
                  LET done == RefreshHandler(heap, flags, now, query)
                      bare == RefreshHandler(heap, flags, now,
                                             WithoutApplicationId(query))
                  IN  /\ done = bare
                      /\ flags' = bare.flags
                      /\ Snapshot(heap', flags') = Snapshot(bare.heap, bare.flags)
                      /\ lastRefresh'.status = bare.status
                      /\ lastRefresh'.body = bare.body]_vars

\* A refreshed store has been listed for a request that names an application.
ApplicationIdIsInertWitness ==
    /\ lastRefresh.status = 200
    /\ lastRefresh.before # Snapshot(heap, flags)
    /\ IsReply("GET /flags")
    /\ Has(reply.req.query, "applicationId")
    /\ reply.phase = "sent"
    /\ reply.body = Snapshot(heap, flags)

\* The request's query string without its context.
WithoutContext(query) == [p \in DOMAIN query \ {"context"} |-> query[p]]

\* C14: the context of GET /flags/{flagKey} never changes the outcome: a
\* context that does not parse is taken as the empty context and no error
\* surfaces, and with any context the response is that of the request
\* without one, 200 with the stored record for a stored key and 404
\* otherwise.
ContextNeverChangesOutcome ==
    [][(reply = NoReply /\ reply'.phase = "pending"
        /\ reply'.op = "GET /flags/:flagKey") =>
           LET flagKey == reply'.req.flagKey
               query == reply'.req.query
               bare == GetFlagHandler(flags, heap, flagKey, WithoutContext(query))
           IN  /\ Response(reply') = Response(bare)
               /\ (Has(query, "context") /\ JsonThrows(query.context)) =>
                      reply'.req.context = bare.req.context
               /\ bare.req.context = <<>>
               /\ IF flagKey \in DOMAIN flags
                  THEN /\ reply'.status = 200
                       /\ DOMAIN reply'.refs = {flagKey}
                       /\ reply'.refs[flagKey] = flags[flagKey]
                  ELSE /\ reply'.status = 404
                       /\ reply'.body = [error |-> "Flag not found"]]_vars

\* A stored flag has been returned for a request whose context does not
\* parse.
ContextNeverChangesOutcomeWitness ==
    /\ IsReply("GET /flags/:flagKey")
    /\ Has(reply.req.query, "context")
    /\ reply.req.query.context = Ctx_malformed
    /\ reply.req.context = <<>>
    /\ reply.phase = "sent"
    /\ reply.status = 200
    /\ reply.body = Stored(reply.req.flagKey)

\* The records a GET /flags reply carries.
Listing == [k \in DOMAIN reply.seen |-> Observed(k)]

\* C15: a refresh replaces the whole store in one step, so that once a
\* refresh has run every state shows all records with the same lastUpdated,
\* the timestamp the most recent refresh returned, and a GET /flags never
\* carries records from before a refresh together with records from after
\* it.
RefreshIsOneStep ==
    /\ [](/\ lastRefresh.status = 200 =>
                 \A k \in DOMAIN flags :
                     Stored(k).lastUpdated = lastRefresh.body.timestamp
          /\ (IsReply("GET /flags") /\ reply.phase = "pending") =>
                 \/ \A k \in DOMAIN reply.refs : reply.refs[k] = flags[k]
                 \/ \A k \in DOMAIN reply.refs : reply.refs[k] \notin Range(flags)
          /\ (IsReply("GET /flags") /\ lastRefresh.status = 200) =>
                 /\ DOMAIN Listing = DOMAIN flags
                 /\ ~ \E j, k \in DOMAIN Listing :
                          /\ Listing[j] = lastRefresh.before[j]
                          /\ Listing[j] # Stored(j)
                          /\ Listing[k] = Stored(k)
                          /\ Listing[k] # lastRefresh.before[k])
    /\ [][(\E k \in DOMAIN flags : flags'[k] # flags[k]) =>
              /\ RefreshStep
              /\ \A k \in DOMAIN flags : flags'[k] \notin Range(flags)
              /\ \A j, k \in DOMAIN flags :
                     heap'[flags'[j]].lastUpdated = heap'[flags'[k]].lastUpdated]_vars

\* A store seeded with two different timestamps has been refreshed, and a
\* GET /flags that ran afterwards lists it with the refresh's timestamp on
\* every record.
RefreshIsOneStepWitness ==
    /\ lastRefresh.status = 200
    /\ \E j, k \in DOMAIN lastRefresh.before :
           lastRefresh.before[j].lastUpdated # lastRefresh.before[k].lastUpdated
    /\ IsReply("GET /flags")
    /\ reply.phase = "pending"
    /\ \A k \in DOMAIN reply.refs : reply.refs[k] = flags[k]
    /\ \A k \in DOMAIN flags : Listing[k].lastUpdated = lastRefresh.body.timestamp

====
